---- MODULE Spec2Model ----
(***************************************************************************)
(* letterpakken: the bipartite feasibility check of matching.py.           *)
(*                                                                         *)
(* is_valid(word, letter_sets) builds the position/set graph and runs the  *)
(* Hopcroft-Karp engine _hopcroft_karp(adj, n_left, n_right), which        *)
(* alternates the layering phase _bfs and the augmenting phase (_dfs from  *)
(* every unmatched left vertex) until _bfs finds no augmenting path.       *)
(*                                                                         *)
(* Vertices keep the source's 0-based indices: pairU, pairV, dist and adj  *)
(* are functions on 0..n-1; a row adj[u] is a sequence, read left to       *)
(* right as the for loops read it.  The recursion of _dfs is an explicit   *)
(* stack of frames, one step per edge test and one step per array write.   *)
(***************************************************************************)
EXTENDS Integers, Sequences, FiniteSets, TLC

\* ---------------------------------------------------------------- bounds
MaxLeft == 3
MaxRight == 3
MaxEdges == 4
MaxQueries == 2
Alphabet == {"a", "b"}

\* ------------------------------------------------------------- constants
INF == 1000000000
\* float("inf"): equal to itself plus one, different from every int.
FLOAT_INF == 2000000000

VARIABLES
    mode,         \* which function the caller invoked: "is_valid" | "hopcroft_karp"
    word,         \* is_valid's word (a sequence of characters)
    letter_sets,  \* is_valid's list of letter sets (a sequence of sets)
    verdicts,     \* the booleans is_valid has returned so far
    adj, n_left, n_right,   \* _hopcroft_karp's arguments
    pairU, pairV, dist,     \* the matching state (<<>> before it is created)
    matching,     \* the driver's counter
    found,        \* what the last _bfs returned
    rounds,       \* how many times _bfs has run
    u,            \* the driver's for-loop variable
    stack,        \* _dfs frames, innermost last: [u, i, at]
    outcome,      \* the engine's outcome: "none" | "ValueError" | "return"
    hk_ret,       \* the tuple the engine returned (<<>> before it returns)
    pc

vars == <<mode, word, letter_sets, verdicts, adj, n_left, n_right,
          pairU, pairV, dist, matching, found, rounds, u, stack, outcome,
          hk_ret, pc>>

\* ---------------------------------------------------------------- helpers
\* A Python list as a function on 0..len-1.
Arr(s) == [i \in 0..(Len(s) - 1) |-> s[i + 1]]

Size(a) == Cardinality(DOMAIN a)

Min(a, b) == IF a <= b THEN a ELSE b

\* Mutant of Plus1: the next layer taken to be two further.
Plus1_two(d) == IF d = FLOAT_INF THEN FLOAT_INF ELSE d + 2

\* dist[u] + 1 (float inf + 1 is float inf).
Plus1(d) == IF d = FLOAT_INF THEN FLOAT_INF ELSE d + 1

\* Mutant of Edges: only the first set that contains the character.
Edges_first(ch, sets) ==
    LET all == SelectSeq([j \in 1..Len(sets) |-> j - 1], LAMBDA j : ch \in sets[j + 1])
    IN IF all = <<>> THEN <<>> ELSE <<Head(all)>>

\* [j for j, s in enumerate(letter_sets) if ch in s]
Edges(ch, sets) ==
    SelectSeq([j \in 1..Len(sets) |-> j - 1], LAMBDA j : ch \in sets[j + 1])

\* ------------------------------------------------------------------ _bfs
\* The first loop of _bfs: dist and the queue of unmatched left vertices.
BfsInitDist(pU, n) == [x \in 0..(n - 1) |-> IF pU[x] = -1 THEN 0 ELSE INF]

\* Mutant of BfsInitQueue: the traversal starts from the first unmatched
\* left vertex only.
RECURSIVE BfsInitQueue_first(_, _, _)
BfsInitQueue_first(pU, n, x) ==
    IF x >= n THEN <<>>
    ELSE IF pU[x] = -1 THEN <<x>>
    ELSE BfsInitQueue_first(pU, n, x + 1)

RECURSIVE BfsInitQueue(_, _, _)
BfsInitQueue(pU, n, x) ==
    IF x >= n THEN <<>>
    ELSE IF pU[x] = -1 THEN <<x>> \o BfsInitQueue(pU, n, x + 1)
    ELSE BfsInitQueue(pU, n, x + 1)

\* The while loop of _bfs: st = [q, dist, found], x the vertex popped, i the
\* position in its row.
RECURSIVE BfsRow(_, _, _, _, _)
BfsRow(a, pV, st, x, i) ==
    IF i > Len(a[x]) THEN st
    ELSE LET v == a[x][i]
             pu == pV[v]
         IN IF pu = -1
            THEN BfsRow(a, pV, [st EXCEPT !.found = TRUE], x, i + 1)
            ELSE IF st.dist[pu] = INF
            THEN BfsRow(a, pV,
                        [st EXCEPT !.dist[pu] = st.dist[x] + 1,
                                   !.q = Append(st.q, pu)], x, i + 1)
            ELSE BfsRow(a, pV, st, x, i + 1)

RECURSIVE BfsLoop(_, _, _)
BfsLoop(a, pV, st) ==
    IF st.q = <<>> THEN st
    ELSE BfsLoop(a, pV, BfsRow(a, pV, [st EXCEPT !.q = Tail(st.q)], Head(st.q), 1))

\* Mutant of Bfs: matched edges are not followed, only the rows of the
\* unmatched left vertices are read.
Bfs_direct(a, pU, pV, n) ==
    [q |-> <<>>,
     dist |-> BfsInitDist(pU, n),
     found |-> \E x \in 0..(n - 1) :
                  pU[x] = -1 /\ \E i \in 1..Len(a[x]) : pV[a[x][i]] = -1]

Bfs(a, pU, pV, n) ==
    BfsLoop(a, pV, [q |-> BfsInitQueue(pU, n, 0),
                    dist |-> BfsInitDist(pU, n),
                    found |-> FALSE])

\* ------------------------------------------------------------------ Init
Unused == <<>>

EngineIdle ==
    /\ pairU = Unused /\ pairV = Unused /\ dist = Unused
    /\ matching = 0 /\ found = FALSE /\ rounds = 0 /\ u = 0
    /\ stack = <<>> /\ outcome = "none" /\ hk_ret = <<>>

\* Rows over right vertices 0..nr-1 without repeats, in any order, of length
\* at most e.
RECURSIVE Rows(_, _)
Rows(nr, e) ==
    IF e = 0 THEN {<<>>}
    ELSE LET shorter == Rows(nr, e - 1)
         IN shorter \cup
            {Append(r, v) : <<r, v>> \in
                {p \in shorter \X (0..(nr - 1)) :
                    /\ Len(p[1]) = e - 1
                    /\ \A k \in 1..Len(p[1]) : p[1][k] # p[2]}}

\* Adjacency lists of length len over nr right vertices with at most e edges.
RECURSIVE Graphs(_, _, _)
Graphs(len, nr, e) ==
    IF len = 0 THEN {<<>>}
    ELSE UNION {{<<r>> \o g : g \in Graphs(len - 1, nr, e - Len(r))} :
                    r \in Rows(nr, Min(nr, e))}

RECURSIVE Lists(_, _)
Lists(S, n) ==
    IF n = 0 THEN {<<>>}
    ELSE LET shorter == Lists(S, n - 1)
         IN shorter \cup {Append(s, x) : <<s, x>> \in
                            {p \in shorter \X S : Len(p[1]) = n - 1}}

\* A direct call _hopcroft_karp(adj, n_left, n_right).
InitEngine ==
    /\ mode = "hopcroft_karp"
    /\ word = <<>> /\ letter_sets = <<>> /\ verdicts = <<>>
    /\ n_left \in 0..MaxLeft
    /\ n_right \in 0..MaxRight
    /\ \E len \in 0..MaxLeft : adj \in {Arr(g) : g \in Graphs(len, n_right, MaxEdges)}
    /\ EngineIdle
    /\ pc = "hopcroft_karp"

\* A call is_valid(word, letter_sets).
InitWord ==
    /\ mode = "is_valid"
    /\ word \in Lists(Alphabet, MaxLeft)
    /\ letter_sets \in Lists(SUBSET Alphabet, MaxRight)
    /\ verdicts = <<>>
    /\ adj = Unused /\ n_left = 0 /\ n_right = 0
    /\ EngineIdle
    /\ pc = "is_valid"

Init == InitEngine \/ InitWord

\* Mutant of is_valid: the engine is called even when a position has no set.
is_valid_no_edge_check ==
    /\ pc = "is_valid"
    /\ LET k == Len(letter_sets)
           built == [i \in 0..(Len(word) - 1) |-> Edges(word[i + 1], letter_sets)]
       IN IF Len(word) # k
          THEN /\ verdicts' = Append(verdicts, FALSE)
               /\ pc' = "done"
               /\ UNCHANGED <<adj, n_left, n_right>>
          ELSE /\ adj' = built
               /\ n_left' = k
               /\ n_right' = k
               /\ pc' = "hopcroft_karp"
               /\ UNCHANGED verdicts
    /\ UNCHANGED <<mode, word, letter_sets, pairU, pairV, dist, matching,
                   found, rounds, u, stack, outcome, hk_ret>>

\* -------------------------------------------------------------- is_valid
is_valid ==
    /\ pc = "is_valid"
    /\ LET k == Len(letter_sets)
           built == [i \in 0..(Len(word) - 1) |-> Edges(word[i + 1], letter_sets)]
       IN IF Len(word) # k \/ \E i \in DOMAIN built : built[i] = <<>>
          THEN /\ verdicts' = Append(verdicts, FALSE)
               /\ pc' = "done"
               /\ UNCHANGED <<adj, n_left, n_right>>
          ELSE /\ adj' = built
               /\ n_left' = k
               /\ n_right' = k
               /\ pc' = "hopcroft_karp"
               /\ UNCHANGED verdicts
    /\ UNCHANGED <<mode, word, letter_sets, pairU, pairV, dist, matching,
                   found, rounds, u, stack, outcome, hk_ret>>

\* Mutant of hopcroft_karp: a wrong length is answered with an empty matching.
hopcroft_karp_coerce ==
    /\ pc = "hopcroft_karp"
    /\ IF Size(adj) # n_left
       THEN /\ outcome' = "return"
            /\ hk_ret' = <<0, <<>>, <<>>>>
            /\ pc' = "done"
            /\ UNCHANGED <<pairU, pairV, dist, matching>>
       ELSE /\ pairU' = [x \in 0..(n_left - 1) |-> -1]
            /\ pairV' = [v \in 0..(n_right - 1) |-> -1]
            /\ dist' = [x \in 0..(n_left - 1) |-> 0]
            /\ matching' = 0
            /\ pc' = "bfs"
            /\ UNCHANGED <<outcome, hk_ret>>
    /\ UNCHANGED <<mode, word, letter_sets, verdicts, adj, n_left, n_right,
                   found, rounds, u, stack>>

\* -------------------------------------------------------- _hopcroft_karp
hopcroft_karp ==
    /\ pc = "hopcroft_karp"
    /\ IF Size(adj) # n_left
       THEN /\ outcome' = "ValueError"
            /\ pc' = "done"
            /\ UNCHANGED <<pairU, pairV, dist, matching>>
       ELSE /\ pairU' = [x \in 0..(n_left - 1) |-> -1]
            /\ pairV' = [v \in 0..(n_right - 1) |-> -1]
            /\ dist' = [x \in 0..(n_left - 1) |-> 0]
            /\ matching' = 0
            /\ pc' = "bfs"
            /\ UNCHANGED outcome
    /\ UNCHANGED <<mode, word, letter_sets, verdicts, adj, n_left, n_right,
                   found, rounds, u, stack, hk_ret>>

\* while _bfs(adj, pairU, pairV, dist, n_left):
bfs ==
    /\ pc = "bfs"
    /\ \E st \in {Bfs(adj, pairU, pairV, n_left)} :
          /\ dist' = st.dist
          /\ found' = st.found
          /\ pc' = IF st.found THEN "for" ELSE "return"
    /\ rounds' = rounds + 1
    /\ u' = 0
    /\ UNCHANGED <<mode, word, letter_sets, verdicts, adj, n_left, n_right,
                   pairU, pairV, matching, stack, outcome, hk_ret>>

\* for u in range(n_left): if pairU[u] == -1 and _dfs(u, ...)
for_u ==
    /\ pc = "for"
    /\ IF u >= n_left
       THEN /\ pc' = "bfs"
            /\ UNCHANGED <<u, stack>>
       ELSE IF pairU[u] = -1
       THEN /\ stack' = <<[u |-> u, i |-> 1, at |-> "test"]>>
            /\ pc' = "dfs"
            /\ UNCHANGED u
       ELSE /\ u' = u + 1
            /\ UNCHANGED <<pc, stack>>
    /\ UNCHANGED <<mode, word, letter_sets, verdicts, adj, n_left, n_right,
                   pairU, pairV, dist, matching, found, rounds, outcome, hk_ret>>

\* ------------------------------------------------------------------ _dfs
Top == stack[Len(stack)]
Callers == SubSeq(stack, 1, Len(stack) - 1)

\* Mutant of DfsReturn: the driver counts every search, failed or not.
DfsReturn_all(val) ==
    IF Callers = <<>>
    THEN /\ stack' = <<>>
         /\ matching' = matching + 1
         /\ u' = u + 1
         /\ pc' = "for"
    ELSE LET c == Callers[Len(Callers)]
         IN /\ stack' = [Callers EXCEPT ![Len(Callers)] =
                            IF val THEN [c EXCEPT !.at = "setU"]
                            ELSE [c EXCEPT !.i = c.i + 1]]
            /\ UNCHANGED <<matching, u, pc>>

\* The innermost _dfs returns val to the frame below it, or to the driver.
DfsReturn(val) ==
    IF Callers = <<>>
    THEN /\ stack' = <<>>
         /\ matching' = IF val THEN matching + 1 ELSE matching
         /\ u' = u + 1
         /\ pc' = "for"
    ELSE LET c == Callers[Len(Callers)]
         IN /\ stack' = [Callers EXCEPT ![Len(Callers)] =
                            IF val THEN [c EXCEPT !.at = "setU"]
                            ELSE [c EXCEPT !.i = c.i + 1]]
            /\ UNCHANGED <<matching, u, pc>>

\* for v in adj[u]: pu = pairV[v]; if pu == -1 or (dist[pu] == dist[u] + 1 and _dfs(pu, ...))
dfs_test ==
    /\ pc = "dfs"
    /\ Top.at = "test"
    /\ Top.i <= Len(adj[Top.u])
    /\ LET v == adj[Top.u][Top.i]
           pu == pairV[v]
       IN IF pu = -1
          THEN stack' = [stack EXCEPT ![Len(stack)].at = "setU"]
          ELSE IF dist[pu] = Plus1(dist[Top.u])
          THEN stack' = Append(stack, [u |-> pu, i |-> 1, at |-> "test"])
          ELSE stack' = [stack EXCEPT ![Len(stack)].i = Top.i + 1]
    /\ UNCHANGED <<mode, word, letter_sets, verdicts, adj, n_left, n_right,
                   pairU, pairV, dist, matching, found, rounds, u, outcome,
                   hk_ret, pc>>

\* Mutant of dfs_setU: the left vertex's new partner is not recorded.
dfs_setU_skip ==
    /\ pc = "dfs"
    /\ Top.at = "setU"
    /\ stack' = [stack EXCEPT ![Len(stack)].at = "setV"]
    /\ UNCHANGED <<mode, word, letter_sets, verdicts, adj, n_left, n_right,
                   pairU, pairV, dist, matching, found, rounds, u, outcome,
                   hk_ret, pc>>

\* pairU[u] = v
dfs_setU ==
    /\ pc = "dfs"
    /\ Top.at = "setU"
    /\ pairU' = [pairU EXCEPT ![Top.u] = adj[Top.u][Top.i]]
    /\ stack' = [stack EXCEPT ![Len(stack)].at = "setV"]
    /\ UNCHANGED <<mode, word, letter_sets, verdicts, adj, n_left, n_right,
                   pairV, dist, matching, found, rounds, u, outcome, hk_ret, pc>>

\* Mutant of dfs_setV: the right vertex's new partner is not recorded.
dfs_setV_skip ==
    /\ pc = "dfs"
    /\ Top.at = "setV"
    /\ DfsReturn(TRUE)
    /\ UNCHANGED <<mode, word, letter_sets, verdicts, adj, n_left, n_right,
                   pairU, pairV, dist, found, rounds, outcome, hk_ret>>

\* pairV[v] = u; return True
dfs_setV ==
    /\ pc = "dfs"
    /\ Top.at = "setV"
    /\ pairV' = [pairV EXCEPT ![adj[Top.u][Top.i]] = Top.u]
    /\ DfsReturn(TRUE)
    /\ UNCHANGED <<mode, word, letter_sets, verdicts, adj, n_left, n_right,
                   pairU, dist, found, rounds, outcome, hk_ret>>

\* dist[u] = float("inf"); return False
dfs_fail ==
    /\ pc = "dfs"
    /\ Top.at = "test"
    /\ Top.i > Len(adj[Top.u])
    /\ dist' = [dist EXCEPT ![Top.u] = FLOAT_INF]
    /\ DfsReturn(FALSE)
    /\ UNCHANGED <<mode, word, letter_sets, verdicts, adj, n_left, n_right,
                   pairU, pairV, found, rounds, outcome, hk_ret>>

\* return matching, pairU, pairV  (and, in is_valid, return matching == k)
hk_return ==
    /\ pc = "return"
    /\ outcome' = "return"
    /\ hk_ret' = <<matching, pairU, pairV>>
    /\ verdicts' = IF mode = "is_valid"
                   THEN Append(verdicts, matching = Len(letter_sets))
                   ELSE verdicts
    /\ pc' = "done"
    /\ UNCHANGED <<mode, word, letter_sets, adj, n_left, n_right, pairU,
                   pairV, dist, matching, found, rounds, u, stack>>

Next ==
    \/ is_valid
    \/ hopcroft_karp
    \/ bfs
    \/ for_u
    \/ dfs_test
    \/ dfs_setU
    \/ dfs_setV
    \/ dfs_fail
    \/ hk_return


\* The caller asks again, about the same word with the same sets in another
\* order: a new, independent is_valid call (nothing of the last one is kept).
Perms(k) == {p \in [1..k -> 1..k] : \A i, j \in 1..k : p[i] = p[j] => i = j}

Permute(s, p) == [i \in 1..Len(s) |-> s[p[i]]]

next_query ==
    /\ pc = "done"
    /\ mode = "is_valid"
    /\ Len(verdicts) < MaxQueries
    /\ \E p \in Perms(Len(letter_sets)) : letter_sets' = Permute(letter_sets, p)
    /\ adj' = Unused /\ n_left' = 0 /\ n_right' = 0
    /\ pairU' = Unused /\ pairV' = Unused /\ dist' = Unused
    /\ matching' = 0 /\ found' = FALSE /\ rounds' = 0 /\ u' = 0
    /\ stack' = <<>> /\ outcome' = "none" /\ hk_ret' = <<>>
    /\ pc' = "is_valid"
    /\ UNCHANGED <<mode, word, verdicts>>

\* One call: is_valid(word, letter_sets) or _hopcroft_karp(adj, n_left, n_right).
Spec == Init /\ [][Next]_vars

\* is_valid on a list of sets and then on reorderings of it.
NextPerm == Next \/ next_query

SpecPerm == InitWord /\ [][NextPerm]_vars

\* ======================================================================
\* What the claims are measured against (none of it reads the engine)
\* ======================================================================
RowSet(r) == {r[i] : i \in 1..Len(r)}

Lefts == 0..(n_left - 1)
Rights == 0..(n_right - 1)

MatchedLefts == {x \in DOMAIN pairU : pairU[x] # -1}
MatchedRights == {v \in DOMAIN pairV : pairV[v] # -1}

\* The size of a largest matching of the graph a on left vertices x..nl-1
\* that avoids the right vertices in used.
RECURSIVE MaxFrom(_, _, _, _)
MaxFrom(a, nl, x, used) ==
    IF x >= nl THEN 0
    ELSE LET skip == MaxFrom(a, nl, x + 1, used)
             take == {1 + MaxFrom(a, nl, x + 1, used \cup {v}) :
                         v \in RowSet(a[x]) \ used}
         IN CHOOSE m \in take \cup {skip} : \A o \in take \cup {skip} : o <= m

MaxMatchingSize == MaxFrom(adj, n_left, 0, {})

\* A one-to-one assignment of the word's positions to the sets that uses
\* every set once, each character a member of its set.
PerfectAssignment(w, sets) ==
    /\ Len(w) = Len(sets)
    /\ \E f \in [1..Len(w) -> 1..Len(sets)] :
          /\ \A i, j \in 1..Len(w) : f[i] = f[j] => i = j
          /\ \A i \in 1..Len(w) : w[i] \in sets[f[i]]

\* An alternating path from an unmatched left vertex to an unmatched right
\* vertex: the left vertices such paths reach, then a free neighbour.
RECURSIVE AltReach(_)
AltReach(R) ==
    LET more == R \cup {pairV[v] : v \in {w \in UNION {RowSet(adj[x]) : x \in R} :
                                             pairV[w] # -1}}
    IN IF more = R THEN R ELSE AltReach(more)

AugmentingPathExists ==
    \E x \in AltReach(Lefts \ MatchedLefts) :
        \E v \in RowSet(adj[x]) : pairV[v] = -1

\* pairU and pairV record the same pairs.
PairsAgree ==
    /\ \A x \in DOMAIN pairU : pairU[x] # -1 => pairV[pairU[x]] = x
    /\ \A v \in DOMAIN pairV : pairV[v] # -1 => pairU[pairV[v]] = v

Returned == pc = "done" /\ outcome = "return"

LastVerdict == verdicts[Len(verdicts)]

\* ======================================================================
\* Claims
\* ======================================================================

\* C1: is_valid(word, letter_sets) returns True exactly when the word's
\* positions can be assigned one-to-one to the sets, every set used once and
\* every character a member of its set; in every other case it returns False.
C1_IsValidIffPerfectMatching ==
    (pc = "done" /\ mode = "is_valid") =>
        /\ Len(verdicts) >= 1
        /\ LastVerdict = PerfectAssignment(word, letter_sets)

\* C1 witness: a word accepted only after an augmenting path re-matched a
\* position, over overlapping sets.
C1_Witness ==
    /\ pc = "done" /\ mode = "is_valid"
    /\ LastVerdict
    /\ rounds >= 3
    /\ Len(word) = 3
    /\ \E i, j \in 1..Len(letter_sets) : i # j /\ letter_sets[i] \cap letter_sets[j] # {}

\* C2: the first component _hopcroft_karp returns is the size of a maximum
\* matching of the graph, also when n_left # n_right and when left vertices
\* have no edges.
C2_ReturnsMaximumSize ==
    Returned => hk_ret[1] = MaxMatchingSize

\* C2 witness: a direct call on a graph with unequal sides and an edgeless
\* left vertex that needed more than one augmenting round.
C2_Witness ==
    /\ Returned /\ mode = "hopcroft_karp"
    /\ n_left # n_right
    /\ \E x \in Lefts : adj[x] = <<>>
    /\ hk_ret[1] = 2
    /\ rounds >= 3

\* C9: _hopcroft_karp([[0, 1], [0], [1]], n_left=3, n_right=2) returns
\* (2, [1, 0, -1], [1, 0]), as the docstring example says.
C9_DocstringExample ==
    ( /\ Returned /\ mode = "hopcroft_karp"
      /\ adj = Arr(<< <<0, 1>>, <<0>>, <<1>> >>)
      /\ n_left = 3 /\ n_right = 2 )
    => hk_ret = <<2, Arr(<<1, 0, -1>>), Arr(<<1, 0>>)>>

\* C3 (as claimed): at any point of a run, also between the two writes of an
\* unwinding depth-first augmentation, pairU[u] = v exactly when pairV[v] = u.
C3_PairsAgreeAtAnyPoint == PairsAgree

\* No _dfs call has found its edge and not yet finished writing it.
NoWritePending == stack = <<>> \/ Top.at = "test"

\* C3 (amended): the two arrays agree whenever no _dfs call is between
\* accepting an edge and finishing its two writes: at every round boundary,
\* during layering, between and while descending in the searches, at return.
C3_PairsAgreeOutsideWrites == NoWritePending => PairsAgree

\* C3 witness: a search is descending again after an earlier augmentation
\* of the same run flipped a matched edge.
C3_Witness ==
    /\ pc = "dfs" /\ Len(stack) >= 2 /\ Top.at = "test"
    /\ matching >= 2
    /\ rounds >= 2

\* The graph builder's two conditions for running the engine.
BuilderAccepts ==
    /\ Len(word) = Len(letter_sets)
    /\ \A i \in 1..Len(word) : \E j \in 1..Len(letter_sets) : word[i] \in letter_sets[j]

EngineEntered ==
    \/ pc \in {"hopcroft_karp", "bfs", "for", "dfs", "return"}
    \/ outcome # "none" \/ rounds > 0 \/ hk_ret # <<>>
    \/ pairU # Unused \/ pairV # Unused \/ dist # Unused

\* C4: is_valid invokes the engine only when len(word) is the number of sets
\* and every position has a set containing its character; otherwise it
\* returns False and no layering or augmenting step has run.
C4_ShortCircuit ==
    mode = "is_valid" =>
        /\ EngineEntered => BuilderAccepts
        /\ (pc = "done" /\ ~BuilderAccepts) =>
              /\ verdicts = <<FALSE>>
              /\ ~EngineEntered /\ stack = <<>> /\ matching = 0

\* C4 witness: equal lengths, one position whose character is in no set,
\* rejected.
C4_Witness ==
    /\ mode = "is_valid" /\ pc = "done"
    /\ Len(word) = 3 /\ Len(letter_sets) = 3
    /\ ~BuilderAccepts
    /\ verdicts = <<FALSE>>

\* C5: called with len(adj) # n_left, _hopcroft_karp ends in ValueError before
\* any matching state exists or any phase runs; that outcome is not a normal
\* return (in particular not a matching size of zero) and never becomes an
\* is_valid verdict.
C5_ConfigurationError ==
    /\ (mode = "hopcroft_karp" /\ Size(adj) # n_left /\ pc = "done") =>
          outcome = "ValueError"
    /\ outcome = "ValueError" =>
          /\ Size(adj) # n_left
          /\ pairU = Unused /\ pairV = Unused /\ dist = Unused
          /\ rounds = 0 /\ stack = <<>>
          /\ hk_ret = <<>>
          /\ verdicts = <<>>
    /\ outcome = "return" => Size(adj) = n_left /\ Len(hk_ret) = 3

\* C5 witness: a non-empty adjacency list whose length is not n_left, raised.
C5_Witness ==
    /\ outcome = "ValueError" /\ pc = "done"
    /\ Size(adj) = 2 /\ n_left = 3
    /\ \E x \in DOMAIN adj : adj[x] # <<>>

\* C6: is_valid gives the same verdict for a list of sets and for every
\* reordering of it.
C6_OrderOfSetsIrrelevant ==
    \A i, j \in 1..Len(verdicts) : verdicts[i] = verdicts[j]

\* C6 witness: the second query, on a genuinely reordered list, was decided
\* by the engine after an augmenting round.
C6_Witness ==
    /\ pc = "done" /\ Len(verdicts) = 2
    /\ Len(letter_sets) = 3
    /\ letter_sets[1] # letter_sets[2] /\ letter_sets[2] # letter_sets[3]
    /\ rounds >= 3

\* The augmenting phase of a round is over.
RoundOver == pc = "for" /\ u >= n_left

\* The length of the longest row of adj.
MaxRow ==
    LET lens == {Len(adj[x]) : x \in DOMAIN adj} \cup {0}
    IN CHOOSE m \in lens : \A o \in lens : o <= m

\* A variant for the run: a natural number that every step makes smaller.
\* Within one search (n left vertices, rows of at most m entries) the order
\* is lexicographic: the left vertices not yet marked exhausted; then, while
\* searching, the depth still available and the entries left in the innermost
\* row; then, while unwinding, the frames and writes left.
UnwindMax(n) == 2 * n + 2
InnerMax(n, m) == UnwindMax(n) + (n + 1) * (m + 2) + m + 1
DfsMax(n, m) == (n + 1) * InnerMax(n, m) + 2
RoundMax(n, m) == (n + 1) * DfsMax(n, m) + 2
EngineMax(n, r, m) == 2 + (Min(n, r) + 2) * RoundMax(n, m)

DfsRank(n, m, live) ==
    LET d == Len(stack)
    IN live * InnerMax(n, m)
       + (IF Top.at = "test"
          THEN UnwindMax(n) + (n + 1 - d) * (m + 2) + (Len(adj[Top.u]) - Top.i + 1)
          ELSE 2 * d + (IF Top.at = "setU" THEN 1 ELSE 0))

RankOf(n, r, m, live) ==
    IF pc = "done" THEN 0
    ELSE IF pc = "return" THEN 1
    ELSE IF pc = "is_valid"
    THEN 1 + EngineMax(Len(word), Len(letter_sets), Len(letter_sets))
    ELSE IF pc = "hopcroft_karp" THEN EngineMax(n, r, m)
    ELSE 2 + (Min(n, r) + 1 - rounds) * RoundMax(n, m)
         + (IF pc = "bfs" THEN 0
            ELSE IF pc = "for" THEN 1 + (n - u) * DfsMax(n, m)
            ELSE 1 + (n - u - 1) * DfsMax(n, m) + 1 + DfsRank(n, m, live))

Rank ==
    CHOOSE k \in {RankOf(n, r, m, live) :
                    n \in {n_left}, r \in {n_right}, m \in {MaxRow},
                    live \in {Cardinality({x \in DOMAIN dist : dist[x] # FLOAT_INF})}} : TRUE

\* Until the call is over a step is possible: the driver's steps wait for
\* nothing but their place in the code, and a frame of _dfs can always act.
CanStep ==
    \/ pc \in {"done", "is_valid", "hopcroft_karp", "bfs", "for", "return"}
    \/ pc = "dfs" /\ ENABLED (dfs_test \/ dfs_setU \/ dfs_setV \/ dfs_fail)

\* C7: every run terminates; every round whose layering phase found a path
\* has a successful search from a vertex that was unmatched when the round
\* began, so the counter grows every round and _bfs runs at most
\* min(n_left, n_right) + 1 times.  Termination: a step is always possible
\* until the call is over, and every step lowers the variant.
C7_Terminates ==
    /\ [](RoundOver => \E x \in Lefts : dist[x] = 0 /\ pairU[x] # -1)
    /\ [](pc = "bfs" => matching >= rounds)
    /\ [](pc = "return" => matching >= rounds - 1)
    /\ [](rounds <= Min(n_left, n_right) + 1)
    /\ [](CanStep)
    /\ [](Rank >= 0)
    /\ [][Rank' < Rank]_vars

\* C7 witness: a run on three left vertices whose second augmenting round
\* completed the matching, followed by the layering phase that found nothing.
C7_Witness ==
    /\ pc = "return" /\ ~found
    /\ rounds = 3 /\ matching = 3

\* _bfs has just returned and nothing has been augmented since.
AfterBfs == (pc = "for" /\ u = 0 /\ stack = <<>>) \/ pc = "return"

\* C8: at the start of every round _bfs returns True exactly when the
\* current matching has an augmenting path, and False exactly when it is
\* already maximum.
C8_BfsFindsAugmentingPath ==
    AfterBfs =>
        /\ found <=> AugmentingPathExists
        /\ ~found <=> Cardinality(MatchedLefts) = MaxMatchingSize

\* C8 witness: _bfs reports a path that starts at an unmatched left vertex
\* all of whose neighbours are matched.
C8_Witness ==
    /\ AfterBfs /\ found
    /\ \E x \in Lefts \ MatchedLefts :
          /\ adj[x] # <<>>
          /\ \A v \in RowSet(adj[x]) : pairV[v] # -1
    /\ \A x \in Lefts \ MatchedLefts : \A v \in RowSet(adj[x]) : pairV[v] # -1

\* The recorded pairs are a matching of the graph and the counter counts them.
ValidMatching ==
    /\ \A x \in Lefts : pairU[x] # -1 =>
          /\ pairU[x] \in RowSet(adj[x])
          /\ pairV[pairU[x]] = x
    /\ \A v \in Rights : pairV[v] # -1 => pairU[pairV[v]] = v
    /\ \A x, y \in Lefts : (x # y /\ pairU[x] # -1) => pairU[x] # pairU[y]
    /\ matching = Cardinality(MatchedLefts)
    /\ matching <= Min(n_left, n_right)

\* C10: each time _bfs is entered and at return, the recorded pairs are edges,
\* mutually recorded, no right vertex taken twice, the counter is the number
\* of matched left vertices (at most min(n_left, n_right)), and a matched
\* vertex stays matched.
C10_MatchingAtRoundBoundaries ==
    /\ [](pc \in {"bfs", "return"} \/ Returned => ValidMatching)
    /\ [][ /\ \A x \in DOMAIN pairU : pairU[x] # -1 => pairU'[x] # -1
           /\ \A v \in DOMAIN pairV : pairV[v] # -1 => pairV'[v] # -1 ]_vars

\* C10 witness: a round boundary after a round that re-matched a left vertex
\* to another right vertex than the first in its row, on unequal sides.
C10_Witness ==
    /\ pc = "bfs" /\ rounds = 2 /\ matching = 2
    /\ n_left # n_right
    /\ \E x \in Lefts : pairU[x] # -1 /\ pairU[x] # adj[x][1]

====
